---------------------------- MODULE Spec2Model ----------------------------
(***************************************************************************)
(* esp32s3-httpserver-example: the shared telemetry record (sensor.rs,     *)
(* http.rs, main.rs) and the access-point setup (wifi.rs, main.rs).        *)
(*                                                                         *)
(* The repository holds two builds of the same program:                    *)
(*   "lib"  - the modules sensor.rs / http.rs / wifi.rs;                   *)
(*   "main" - the monolithic main.rs, which inlines all three.             *)
(* The variable build says which of the two is running.                    *)
(*                                                                         *)
(* Floats are fixed-point tenths (25.0 is 250).  A string is the sequence  *)
(* of its bytes.                                                           *)
(***************************************************************************)
EXTENDS Integers, Sequences, FiniteSets, TLC

\* ------------------------------------------------------------- bounds ----
\* now_secs() never exceeds MaxClock in the model.
MaxClock == 2
\* The store is created when now_secs() is in 0..MaxStart.
MaxStart == 1
\* Update cycles (lock attempts of the writers) explored.
MaxCycles == 2
\* rand::random::<f32>() is r / RandDen for an r of RandSamples.
RandDen == 10

\* ---------------------------------------------------- program constants ---
\* sensor.rs:20 / :32 and main.rs:75
DefaultTemperature == 250
\* sensor.rs:21 / :33 and main.rs:76
DefaultHumidity == 600
\* main.rs:77
MainInitialTimestamp == 0
\* sensor.rs:77, 20.0 + r * 10.0
TempBase == 200
TempSpan == 100
\* sensor.rs:79, 50.0 + r * 20.0
HumBase == 500
HumSpan == 200

\* wifi.rs:76  HString<32>
SsidCapacity == 32
\* wifi.rs:85  pwd.len() < 8 || pwd.len() > 63
MinPasswordLen == 8
MaxPasswordLen == 63
\* wifi.rs:88  HString<64>
PasswordCapacity == 64
\* wifi.rs:108
MaxConnections == 4
\* wifi.rs:23 and main.rs:42
DefaultChannel == 1

Builds == {"lib", "main"}
Readers == {"r1", "r2"}
Writers == {"upd", "once"}
RandSamples == {0, RandDen - 1}

VARIABLES
    build,      \* which build runs
    clock,      \* SystemTime::now() in seconds since the epoch
    data,       \* the SensorData inside the Mutex
    holder,     \* the thread holding the Mutex, or "none"
    poisoned,   \* the Mutex's poison flag
    wPc,        \* the writers: "upd" is start_updater's thread / main.rs's
                \* loop, "once" a caller of update_once (lib only)
    rdPc,       \* each /api/sensor request handler
    rdRes,      \* the handler's local record: <<>> or <<record>>
    cycles,     \* lock attempts of the writers so far
    sentinel,   \* history: the record the store was created with
    installed,  \* history: the records installed by completed updates
    logs,       \* the lines each thread has written to the log since it last
                \* called lock(): their levels, in order
    apPc,       \* where setup_ap_with / setup_wifi stands
    ssid,       \* its arguments: the SSID bytes,
    password,   \*   Option<&str>: <<>> is None, <<bytes>> is Some(bytes),
    channel,    \*   the u8 channel
    cfg,        \* the Configuration built: <<>> or <<configuration>>
    taken,      \* the ESP-IDF services and driver objects acquired so far
    radio,      \* the calls made on the Wi-Fi driver, each with its outcome
    apResult,   \* "running", "Ok" or the error returned
    mainPc,     \* where main() stands
    routes,     \* the URIs with a handler registered on the HTTP server
    created     \* history: the times at which a store was created

storeVars == <<clock, data, holder, poisoned, wPc, rdPc, rdRes,
               cycles, sentinel, installed, logs>>
apVars == <<apPc, ssid, password, channel, cfg, taken, radio, apResult>>
bootVars == <<mainPc, routes, created>>
vars == <<build, storeVars, apVars, bootVars>>

\* ------------------------------------------------------------ sensor.rs ---
SensorData(t, h, ts) == [temperature |-> t, humidity |-> h, timestamp |-> ts]

\* now_secs(): the wall clock in whole seconds.
now_secs == clock

\* new_shared() of sensor.rs, and main.rs's Arc::new(Mutex::new(..)).
new_shared(b, now) ==
    IF b = "lib"
    THEN SensorData(DefaultTemperature, DefaultHumidity, now)
    ELSE SensorData(DefaultTemperature, DefaultHumidity, MainInitialTimestamp)

\* 20.0 + rand * 10.0 and 50.0 + rand * 20.0 for rand = r / RandDen.
SimTemperature(r) == TempBase + (r * TempSpan) \div RandDen
\* (a humidity span of 40.0 instead of 20.0)
SimHumidityWide(r) == HumBase + (r * HumSpan * 2) \div RandDen
SimHumidity(r) == HumBase + (r * HumSpan) \div RandDen

\* std::sync::Mutex::lock: waits until the mutex is free and takes it.  The
\* caller gets Ok(guard) or, when poisoned, Err(PoisonError(guard)): the
\* mutex is held in both cases until the guard (or the error) is dropped.
\* (a lock that does not wait for the holder)
MutexLockNoWait(t) == holder' = t
MutexLock(t) == holder = "none" /\ holder' = t

\* Dropping the guard (or the PoisonError that owns it).
\* (a guard that outlives its block)
MutexKeep(t) == holder' = holder
MutexUnlock(t) == holder' = "none"

\* Dropping the guard while the thread unwinds from a panic poisons the mutex.
MutexUnlockPanicking(t) == holder' = "none" /\ poisoned' = TRUE

Tick ==
    /\ clock < MaxClock
    /\ clock' = clock + 1
    /\ UNCHANGED <<bootVars, apVars, build, logs, data, holder, poisoned, wPc, rdPc, rdRes,
                   cycles, sentinel, installed>>

\* ---- the updater: sensor.rs start_updater, main.rs runtime.block_on loop --
\* (an updater that unwraps the lock result, as main.rs does)
start_updater_lock_unwrap ==
    /\ build = "lib"
    /\ wPc["upd"] = "lock"
    /\ cycles < MaxCycles
    /\ MutexLock("upd")
    /\ wPc' = [wPc EXCEPT !["upd"] = IF poisoned THEN "unwrap" ELSE "wT"]
    /\ cycles' = cycles + 1
    /\ logs' = [logs EXCEPT !["upd"] = << >>]
    /\ UNCHANGED <<bootVars, apVars, build, clock, data, poisoned, rdPc, rdRes, sentinel, installed>>

\* sensor.rs:56  if let Ok(mut data) = shared.lock() { .. } else { .. }
\* The Err value owns the guard and lives to the end of the if-let statement
\* (Rust editions up to 2021), so the else branch runs with the mutex held;
\* either way the guard is gone when the block at :55-67 ends.
start_updater_lock ==
    /\ build = "lib"
    /\ wPc["upd"] = "lock"
    /\ cycles < MaxCycles
    /\ MutexLock("upd")
    /\ wPc' = [wPc EXCEPT !["upd"] = IF poisoned THEN "warn" ELSE "wT"]
    /\ cycles' = cycles + 1
    /\ logs' = [logs EXCEPT !["upd"] = << >>]
    /\ UNCHANGED <<bootVars, apVars, build, clock, data, poisoned, rdPc, rdRes, sentinel, installed>>

\* main.rs:193  let mut data = sensor_data.lock().unwrap();
\* On a poisoned mutex lock() returns the error that owns the guard, and
\* unwrap() panics with it.
main_loop_lock ==
    /\ build = "main"
    /\ wPc["upd"] = "lock"
    /\ cycles < MaxCycles
    /\ MutexLock("upd")
    /\ wPc' = [wPc EXCEPT !["upd"] = IF poisoned THEN "unwrap" ELSE "wT"]
    /\ cycles' = cycles + 1
    /\ logs' = [logs EXCEPT !["upd"] = << >>]
    /\ UNCHANGED <<bootVars, apVars, build, clock, data, poisoned, rdPc, rdRes, sentinel, installed>>

\* (an update that recovers a poisoned lock: e.into_inner(), and writes)
update_once_lock_recover ==
    /\ build = "lib"
    /\ wPc["once"] = "idle"
    /\ cycles < MaxCycles
    /\ MutexLock("once")
    /\ wPc' = [wPc EXCEPT !["once"] = "wT"]
    /\ cycles' = cycles + 1
    /\ logs' = [logs EXCEPT !["once"] = << >>]
    /\ UNCHANGED <<bootVars, apVars, build, clock, data, poisoned, rdPc, rdRes, sentinel, installed>>

\* sensor.rs:41-42  update_once: if let Ok(mut data) = shared.lock()
update_once_lock ==
    /\ build = "lib"
    /\ wPc["once"] = "idle"
    /\ cycles < MaxCycles
    /\ MutexLock("once")
    /\ wPc' = [wPc EXCEPT !["once"] = IF poisoned THEN "warn" ELSE "wT"]
    /\ cycles' = cycles + 1
    /\ logs' = [logs EXCEPT !["once"] = << >>]
    /\ UNCHANGED <<bootVars, apVars, build, clock, data, poisoned, rdPc, rdRes, sentinel, installed>>

\* sensor.rs:77 (main.rs:194)  data.temperature = 20.0 + rand * 10.0
simulate_update_temperature(w) ==
    /\ wPc[w] = "wT"
    /\ \E r \in RandSamples :
          data' = [data EXCEPT !.temperature = SimTemperature(r)]
    /\ wPc' = [wPc EXCEPT ![w] = "wH"]
    /\ UNCHANGED <<bootVars, apVars, build, logs, clock, holder, poisoned, rdPc, rdRes, cycles,
                   sentinel, installed>>

\* sensor.rs:79 (main.rs:195)  data.humidity = 50.0 + rand * 20.0
simulate_update_humidity(w) ==
    /\ wPc[w] = "wH"
    /\ \E r \in RandSamples :
          data' = [data EXCEPT !.humidity = SimHumidity(r)]
    /\ wPc' = [wPc EXCEPT ![w] = "wTs"]
    /\ UNCHANGED <<bootVars, apVars, build, logs, clock, holder, poisoned, rdPc, rdRes, cycles,
                   sentinel, installed>>

\* sensor.rs:80 (main.rs:196-199)  data.timestamp = now_secs()
\* simulate_update returns: the updater goes on to log::info!, update_once
\* to the end of its if-let block.
simulate_update_timestamp(w) ==
    /\ wPc[w] = "wTs"
    /\ data' = [data EXCEPT !.timestamp = now_secs]
    /\ wPc' = [wPc EXCEPT ![w] = IF w = "upd" THEN "log" ELSE "drop"]
    /\ UNCHANGED <<bootVars, apVars, build, logs, clock, holder, poisoned, rdPc, rdRes, cycles,
                   sentinel, installed>>

\* sensor.rs:58-63 (main.rs:202-203)  log::info!("Updated sensor data ..")
\* with the guard still alive.
updater_log_info ==
    /\ wPc["upd"] = "log"
    /\ wPc' = [wPc EXCEPT !["upd"] = "drop"]
    /\ logs' = [logs EXCEPT !["upd"] = Append(@, "info")]
    /\ UNCHANGED <<bootVars, apVars, build, clock, data, holder, poisoned, rdPc, rdRes, cycles,
                   sentinel, installed>>

\* sensor.rs:64/67 and :44 (main.rs:206 drop(data)): the guard goes out of
\* scope; the update is complete and its record is the current one.
guard_drop(w) ==
    /\ wPc[w] = "drop"
    /\ MutexUnlock(w)
    /\ installed' = installed \cup {data}
    /\ wPc' = [wPc EXCEPT ![w] = IF w = "upd" THEN "sleep" ELSE "idle"]
    /\ UNCHANGED <<bootVars, apVars, build, logs, clock, data, poisoned, rdPc, rdRes, cycles, sentinel>>

\* (a skipped cycle that is not reported)
poisoned_skip_silent(w) ==
    /\ wPc[w] = "warn"
    /\ MutexUnlock(w)
    /\ wPc' = [wPc EXCEPT ![w] = IF w = "upd" THEN "sleep" ELSE "idle"]
    /\ UNCHANGED <<bootVars, apVars, build, logs, clock, data, poisoned, rdPc, rdRes, cycles,
                   sentinel, installed>>

\* sensor.rs:64-66 and :44-46  else { log::warn!(..) }: the cycle is skipped,
\* the record untouched; the Err value and its guard die after the log.
poisoned_skip(w) ==
    /\ wPc[w] = "warn"
    /\ MutexUnlock(w)
    /\ wPc' = [wPc EXCEPT ![w] = IF w = "upd" THEN "sleep" ELSE "idle"]
    /\ logs' = [logs EXCEPT ![w] = Append(@, "warn")]
    /\ UNCHANGED <<bootVars, apVars, build, clock, data, poisoned, rdPc, rdRes, cycles,
                   sentinel, installed>>

\* sensor.rs:70  thread::sleep(period)  (main.rs:207 sleep(..).await), then
\* the next iteration of the loop.
updater_sleep ==
    /\ wPc["upd"] = "sleep"
    /\ wPc' = [wPc EXCEPT !["upd"] = "lock"]
    /\ UNCHANGED <<bootVars, apVars, build, logs, clock, data, holder, poisoned, rdPc, rdRes, cycles,
                   sentinel, installed>>

\* A holder fails inside its critical section: rand::random() (the thread
\* generator cannot be seeded) or the logger panics while the guard is
\* alive.  The thread unwinds and ends, the guard's drop poisons the mutex.
holder_panics(w) ==
    /\ wPc[w] \in {"wT", "wH", "log"}
    /\ MutexUnlockPanicking(w)
    /\ wPc' = [wPc EXCEPT ![w] = "dead"]
    /\ UNCHANGED <<bootVars, apVars, build, logs, clock, data, rdPc, rdRes, cycles, sentinel, installed>>

\* ---- the /api/sensor handler: http.rs:56-65 with sensor.rs snapshot, -----
\* ---- main.rs:172-184 -----------------------------------------------------
NoRecord == << >>

\* sensor.rs:28  shared.lock()  at the start of snapshot
snapshot_lock(r) ==
    /\ build = "lib"
    /\ rdPc[r] = "idle"
    /\ MutexLock(r)
    /\ rdPc' = [rdPc EXCEPT ![r] = IF poisoned THEN "err" ELSE "cs"]
    /\ logs' = [logs EXCEPT ![r] = << >>]
    /\ UNCHANGED <<bootVars, apVars, build, clock, data, poisoned, wPc, rdRes, cycles,
                   sentinel, installed>>

\* main.rs:174  sensor_data_clone.lock().unwrap()
main_handler_lock(r) ==
    /\ build = "main"
    /\ rdPc[r] = "idle"
    /\ MutexLock(r)
    /\ rdPc' = [rdPc EXCEPT ![r] = IF poisoned THEN "unwrap" ELSE "cs"]
    /\ logs' = [logs EXCEPT ![r] = << >>]
    /\ UNCHANGED <<bootVars, apVars, build, clock, data, poisoned, wPc, rdRes, cycles,
                   sentinel, installed>>

\* main.rs:174 and :193  .unwrap() on Err(PoisonError): the thread panics,
\* the unwinding drops the guard held by the error; the handler returns
\* nothing to its client, the updater loop is over.
unwrap_panics(t) ==
    /\ IF t \in Writers
       THEN /\ wPc[t] = "unwrap"
            /\ wPc' = [wPc EXCEPT ![t] = "dead"]
            /\ UNCHANGED rdPc
       ELSE /\ rdPc[t] = "unwrap"
            /\ rdPc' = [rdPc EXCEPT ![t] = "panicked"]
            /\ UNCHANGED wPc
    /\ MutexUnlockPanicking(t)
    /\ UNCHANGED <<bootVars, apVars, build, logs, clock, data, rdRes, cycles, sentinel, installed>>

\* (a reader that leaks its guard: std::mem::forget after the copy)
snapshot_clone_forget(r) ==
    /\ rdPc[r] = "cs"
    /\ rdRes' = [rdRes EXCEPT ![r] = <<data>>]
    /\ rdPc' = [rdPc EXCEPT ![r] = "ret"]
    /\ UNCHANGED <<bootVars, apVars, build, logs, clock, data, holder, poisoned, wPc, cycles,
                   sentinel, installed>>

\* sensor.rs:28  .map(|d| d.clone())  (main.rs:174 .clone()): the copy, then
\* the guard is dropped.
snapshot_clone(r) ==
    /\ rdPc[r] = "cs"
    /\ rdRes' = [rdRes EXCEPT ![r] = <<data>>]
    /\ MutexUnlock(r)
    /\ rdPc' = [rdPc EXCEPT ![r] = "ret"]
    /\ UNCHANGED <<bootVars, apVars, build, logs, clock, data, poisoned, wPc, cycles, sentinel, installed>>

\* (a fallback that recovers the record of the failed holder instead:
\* e.into_inner().clone())
snapshot_into_inner(r) ==
    /\ rdPc[r] = "err"
    /\ rdRes' = [rdRes EXCEPT ![r] = <<data>>]
    /\ MutexUnlock(r)
    /\ rdPc' = [rdPc EXCEPT ![r] = "ret"]
    /\ logs' = [logs EXCEPT ![r] = Append(@, "error")]
    /\ UNCHANGED <<bootVars, apVars, build, clock, data, poisoned, wPc, cycles, sentinel, installed>>

\* sensor.rs:28-36  .unwrap_or_else(|e| { log::error!(..); SensorData {..} })
\* e owns the guard until the closure returns.
snapshot_fallback(r) ==
    /\ rdPc[r] = "err"
    /\ rdRes' = [rdRes EXCEPT ![r] =
                    <<SensorData(DefaultTemperature, DefaultHumidity, now_secs)>>]
    /\ MutexUnlock(r)
    /\ rdPc' = [rdPc EXCEPT ![r] = "ret"]
    /\ logs' = [logs EXCEPT ![r] = Append(@, "error")]
    /\ UNCHANGED <<bootVars, apVars, build, clock, data, poisoned, wPc, cycles, sentinel, installed>>

\* http.rs:58-64 (main.rs:177-183): the record is serialised and written to
\* the response; the handler returns.
handler_respond(r) ==
    /\ rdPc[r] = "ret"
    /\ rdRes' = [rdRes EXCEPT ![r] = NoRecord]
    /\ rdPc' = [rdPc EXCEPT ![r] = "idle"]
    /\ UNCHANGED <<bootVars, apVars, build, logs, clock, data, holder, poisoned, wPc, cycles,
                   sentinel, installed>>

\* ------------------------------------------------- wifi.rs and main.rs ---
Rep(b, n) == [i \in 1..n |-> b]
\* "ESP32-S3-DEMO" (wifi.rs:23, main.rs:33)
DefaultSsid == <<69, 83, 80, 51, 50, 45, 83, 51, 45, 68, 69, 77, 79>>
\* "password123" (wifi.rs:23, main.rs:36)
DefaultPassword == <<112, 97, 115, 115, 119, 111, 114, 100, 49, 50, 51>>

ApServices == {"peripherals", "sys_loop", "nvs", "EspWifi", "BlockingWifi"}

None == << >>
Some(x) == <<x>>

\* heapless::String<cap>::push_str: Err(()) when the bytes do not fit.
HPushStr(h, s, cap) == IF Len(h) + Len(s) > cap THEN None ELSE Some(h \o s)

ErrSsidTooLong == "SSID too long (max 32 chars)"
ErrPasswordLen == "WPA2 password must be 8..=63 characters"
ErrPasswordTooLong == "Password too long (max 64 chars)"
ErrUnwrap == "panic: called Result::unwrap() on an Err value"

AccessPointConfiguration(s, a, p, c) ==
    [ssid |-> s, auth_method |-> a, password |-> p, channel |-> c,
     ssid_hidden |-> FALSE, max_connections |-> MaxConnections]

\* wifi.rs:83-99, the match on password once the SSID is in ssid_h.
build_ap_config_password(ssid_h, pwd, chan) ==
    IF pwd # None /\ Len(pwd[1]) # 0
    THEN IF Len(pwd[1]) < MinPasswordLen \/ Len(pwd[1]) > MaxPasswordLen
         THEN [err |-> ErrPasswordLen, cfg |-> None]
         ELSE IF Len(pwd[1]) > PasswordCapacity
         THEN [err |-> ErrPasswordTooLong, cfg |-> None]
         ELSE LET pwd_h == HPushStr(<< >>, pwd[1], PasswordCapacity) IN
              IF pwd_h = None
              THEN [err |-> ErrUnwrap, cfg |-> None]
              ELSE [err |-> "",
                    cfg |-> Some(AccessPointConfiguration(
                                ssid_h, "WPA2Personal", pwd_h[1], chan))]
    ELSE [err |-> "",
          cfg |-> Some(AccessPointConfiguration(ssid_h, "None", << >>, chan))]

\* (an SSID check that is off by one: >= instead of >)
build_ap_config_off_by_one(s, pwd, chan) ==
    IF Len(s) >= SsidCapacity
    THEN [err |-> ErrSsidTooLong, cfg |-> None]
    ELSE build_ap_config_password(s, pwd, chan)

\* wifi.rs:74-113  build_ap_config(ssid, password, channel): the error of
\* anyhow::bail!, or the Configuration::AccessPoint built.
build_ap_config(s, pwd, chan) ==
    IF Len(s) > SsidCapacity
    THEN [err |-> ErrSsidTooLong, cfg |-> None]
    ELSE LET ssid_h == HPushStr(<< >>, s, SsidCapacity) IN
         IF ssid_h = None
         THEN [err |-> ErrUnwrap, cfg |-> None]
         ELSE build_ap_config_password(ssid_h[1], pwd, chan)

\* main.rs:32-45: the configuration is built from literals, unchecked.
main_ap_config(s, pwd, chan) ==
    LET ssid_h == HPushStr(<< >>, s, SsidCapacity)
        pwd_h == HPushStr(<< >>, pwd[1], PasswordCapacity)
    IN  IF ssid_h = None \/ pwd_h = None
        THEN [err |-> ErrUnwrap, cfg |-> None]
        ELSE [err |-> "",
              cfg |-> Some([ssid |-> ssid_h[1], auth_method |-> "WPA2Personal",
                            password |-> pwd_h[1], channel |-> chan])]

\* The calls on esp-idf-svc return Result<_, EspError>; an EspError is a
\* non-zero esp_err_t and nothing else.  `?` hands it to the caller as it
\* is: no call site adds a context or maps the error.
EspErrors == {"ESP_ERR_INVALID_ARG", "ESP_ERR_TIMEOUT"}
\* The errors the call `name` can give: the type is the same for every
\* call, and says nothing of the call that made the value.
EspErrorsOf(name) == EspErrors

\* A call that returns Result and is followed by `?`: on Err the function
\* returns that error, on Ok the service or object is held.
Acquire(at, next, what) ==
    /\ apPc = at
    /\ \E ok \in BOOLEAN, error \in EspErrors :
          IF ok
          THEN /\ taken' = taken \cup {what}
               /\ apPc' = next
               /\ apResult' = apResult
          ELSE /\ taken' = taken
               /\ apPc' = "done"
               /\ apResult' = error
    /\ UNCHANGED <<bootVars, build, storeVars, ssid, password, channel, cfg, radio>>

\* wifi.rs:37 (main.rs:22)  Peripherals::take()?
take_peripherals ==
    /\ apPc = "peripherals"
    /\ Acquire("peripherals", "sys_loop", "peripherals")
\* wifi.rs:38 (main.rs:23)  EspSystemEventLoop::take()?
take_sys_loop ==
    /\ apPc = "sys_loop"
    /\ Acquire("sys_loop", "nvs", "sys_loop")
\* wifi.rs:39 (main.rs:24)  EspDefaultNvsPartition::take()?
take_nvs ==
    /\ apPc = "nvs"
    /\ Acquire("nvs", "new", "nvs")
\* wifi.rs:44 (main.rs:27)  EspWifi::new(modem, sys_loop.clone(), Some(nvs))?
wifi_new ==
    /\ apPc = "new"
    /\ Acquire("new", "wrap", "EspWifi")
\* wifi.rs:45 (main.rs:26-29)  BlockingWifi::wrap(wifi, sys_loop)?
wifi_wrap ==
    /\ apPc = "wrap"
    /\ Acquire("wrap", "build", "BlockingWifi")

\* wifi.rs:48  let cfg = build_ap_config(ssid, password, channel)?;
\* main.rs:32-45 builds the configuration in place.
build_config ==
    /\ apPc = "build"
    /\ LET res == IF build = "lib"
                  THEN build_ap_config(ssid, password, channel)
                  ELSE main_ap_config(ssid, password, channel)
       IN  /\ cfg' = res.cfg
           /\ IF res.err = ""
              THEN apPc' = "configure" /\ apResult' = apResult
              ELSE apPc' = "done" /\ apResult' = res.err
    /\ UNCHANGED <<bootVars, build, storeVars, ssid, password, channel, taken, radio>>

\* A call on the driver followed by `?`.
RadioCall(at, next, name) ==
    /\ apPc = at
    /\ \E ok \in BOOLEAN, error \in EspErrorsOf(name) :
          /\ radio' = Append(radio, [call |-> name, ok |-> ok, with |-> cfg])
          /\ IF ok
             THEN apPc' = next /\ apResult' = apResult
             ELSE apPc' = "done" /\ apResult' = error
    /\ UNCHANGED <<bootVars, build, storeVars, ssid, password, channel, cfg, taken>>

\* A call on the driver whose result is thrown away.
RadioCallIgnored(at, next, name) ==
    /\ apPc = at
    /\ \E ok \in BOOLEAN :
          radio' = Append(radio, [call |-> name, ok |-> ok, with |-> cfg])
    /\ apPc' = next
    /\ UNCHANGED <<bootVars, build, storeVars, ssid, password, channel, cfg, taken, apResult>>

\* wifi.rs:51 (main.rs:47)  wifi.set_configuration(&cfg)?
set_configuration ==
    /\ apPc = "configure"
    /\ RadioCall("configure", "start", "set_configuration")
\* (start() without the `?`: its error is dropped)
wifi_start_unchecked ==
    /\ apPc = "start"
    /\ RadioCallIgnored("start", IF build = "lib" THEN "set_ps" ELSE "wait", "start")

\* wifi.rs:52-53 (main.rs:48-49)  wifi.start()?  The library build goes on
\* to the tuning calls, main.rs straight to wait_netif_up.
wifi_start ==
    /\ apPc = "start"
    /\ RadioCall("start", IF build = "lib" THEN "set_ps" ELSE "wait", "start")
\* wifi.rs:57  esp_wifi_set_ps(WIFI_PS_NONE);  the esp_err_t is dropped
esp_wifi_set_ps ==
    /\ apPc = "set_ps"
    /\ RadioCallIgnored("set_ps", "set_max_tx_power", "esp_wifi_set_ps")
\* wifi.rs:59  let _ = esp_wifi_set_max_tx_power(84);
esp_wifi_set_max_tx_power ==
    /\ apPc = "set_max_tx_power"
    /\ RadioCallIgnored("set_max_tx_power", "wait", "esp_wifi_set_max_tx_power")
\* wifi.rs:63 (main.rs:51)  wifi.wait_netif_up()?
wait_netif_up ==
    /\ apPc = "wait"
    /\ RadioCall("wait", "ip_info", "wait_netif_up")

\* wifi.rs:64-70: a failed get_ip_info is only logged, Ok(wifi) either way.
\* main.rs:52-55: get_ip_info()? returns the error.
get_ip_info ==
    /\ apPc = "ip_info"
    /\ \E ok \in BOOLEAN, error \in EspErrorsOf("get_ip_info") :
          /\ radio' = Append(radio, [call |-> "get_ip_info", ok |-> ok, with |-> cfg])
          /\ apResult' = IF ok \/ build = "lib" THEN "Ok" ELSE error
    /\ apPc' = "done"
    /\ UNCHANGED <<bootVars, build, storeVars, ssid, password, channel, cfg, taken>>

\* main.rs:98 and :172 (http.rs:36-77 registers more of the static kind)
Routes == {"/", "/api/sensor"}

\* ---- the running service -------------------------------------------------
Init ==
    /\ build \in Builds
    /\ clock \in 0..MaxStart
    /\ data = new_shared(build, clock)
    /\ sentinel = data
    /\ holder = "none"
    /\ poisoned = FALSE
    /\ wPc = [w \in Writers |->
                IF w = "upd" THEN "lock"
                ELSE IF build = "lib" THEN "idle" ELSE "absent"]
    /\ rdPc = [r \in Readers |-> "idle"]
    /\ rdRes = [r \in Readers |-> NoRecord]
    /\ cycles = 0
    /\ installed = {}
    /\ logs = [t \in Writers \cup Readers |-> << >>]
    \* the access point is up, with the default parameters
    /\ apPc = "done"
    /\ ssid = DefaultSsid
    /\ password = Some(DefaultPassword)
    /\ channel = DefaultChannel
    /\ cfg = IF build = "lib"
             THEN build_ap_config(ssid, password, channel).cfg
             ELSE main_ap_config(ssid, password, channel).cfg
    /\ taken = ApServices
    /\ radio = << >>
    /\ apResult = "Ok"
    \* main() has created the store, registered the routes and started
    \* the updater
    /\ mainPc = "loop"
    /\ routes = Routes
    /\ created = <<clock>>

Next ==
    \/ Tick
    \/ start_updater_lock
    \/ main_loop_lock
    \/ update_once_lock
    \/ \E w \in Writers : simulate_update_temperature(w)
    \/ \E w \in Writers : simulate_update_humidity(w)
    \/ \E w \in Writers : simulate_update_timestamp(w)
    \/ updater_log_info
    \/ \E w \in Writers : guard_drop(w)
    \/ \E w \in Writers : poisoned_skip(w)
    \/ updater_sleep
    \/ \E w \in Writers : holder_panics(w)
    \/ \E r \in Readers : snapshot_lock(r)
    \/ \E r \in Readers : main_handler_lock(r)
    \/ \E t \in Writers \cup Readers : unwrap_panics(t)
    \/ \E r \in Readers : snapshot_clone(r)
    \/ \E r \in Readers : snapshot_fallback(r)
    \/ \E r \in Readers : handler_respond(r)

Spec == Init /\ [][Next]_vars

\* ---- scheduling ----------------------------------------------------------
\* The steps of thread t between taking the mutex and dropping the guard
\* (sensor.rs:56-67, :28-36, :42-46; main.rs:193-206, :174).  None of them
\* waits for anything: a thread that is there and is scheduled takes one.
CriticalStep(t) ==
    IF t \in Writers
    THEN \/ simulate_update_temperature(t)
         \/ simulate_update_humidity(t)
         \/ simulate_update_timestamp(t)
         \/ (t = "upd" /\ updater_log_info)
         \/ guard_drop(t)
         \/ poisoned_skip(t)
         \/ holder_panics(t)
         \/ unwrap_panics(t)
    ELSE \/ snapshot_clone(t)
         \/ snapshot_fallback(t)
         \/ unwrap_panics(t)

\* shared.lock() of a handler (sensor.rs:28, main.rs:174).
ReaderLock(r) == snapshot_lock(r) \/ main_handler_lock(r)

\* The threads are preemptively scheduled (std::thread on FreeRTOS), so a
\* thread that can take a step inside its critical section eventually does;
\* the lock is handed out fairly: a handler that finds the mutex free again
\* and again eventually gets it.  Nothing is assumed about the clock, about
\* requests arriving, or about the updater's timer.
Fairness ==
    /\ \A t \in Writers \cup Readers : WF_vars(CriticalStep(t))
    /\ \A r \in Readers : SF_vars(ReaderLock(r))

\* The library's store service alone (sensor.rs under http.rs).  The clock
\* decides no branch of it and stands still here.
InitLive ==
    /\ Init
    /\ build = "lib"
    /\ clock = 0

NextLive ==
    \/ start_updater_lock
    \/ update_once_lock
    \/ \E w \in Writers : simulate_update_temperature(w)
    \/ \E w \in Writers : simulate_update_humidity(w)
    \/ \E w \in Writers : simulate_update_timestamp(w)
    \/ updater_log_info
    \/ \E w \in Writers : guard_drop(w)
    \/ \E w \in Writers : poisoned_skip(w)
    \/ updater_sleep
    \/ \E w \in Writers : holder_panics(w)
    \/ \E r \in Readers : snapshot_lock(r)
    \/ \E r \in Readers : snapshot_clone(r)
    \/ \E r \in Readers : snapshot_fallback(r)
    \/ \E r \in Readers : handler_respond(r)

SpecLive == InitLive /\ [][NextLive]_vars /\ Fairness

\* ---- access-point setup: setup_ap_with (wifi.rs), setup_wifi (main.rs) --
SsidInputs == {Rep(83, n) : n \in {1, SsidCapacity, SsidCapacity + 1}}
PasswordInputs ==
    {None} \cup {Some(Rep(112, n)) :
                   n \in {0, MinPasswordLen - 1, MinPasswordLen,
                          MaxPasswordLen, MaxPasswordLen + 1}}
\* u8
ChannelInputs == {0, 1, 13, 14, 255}

InitAp ==
    /\ build \in Builds
    /\ apPc = "peripherals"
    /\ IF build = "lib"
       THEN /\ ssid \in SsidInputs \cup {DefaultSsid}
            /\ password \in PasswordInputs \cup {Some(DefaultPassword)}
            /\ channel \in ChannelInputs
       ELSE /\ ssid = DefaultSsid
            /\ password = Some(DefaultPassword)
            /\ channel = DefaultChannel
    /\ cfg = None
    /\ taken = {}
    /\ radio = << >>
    /\ apResult = "running"
    \* the store does not exist yet and no thread runs
    /\ clock = 0
    /\ data = new_shared(build, clock)
    /\ sentinel = data
    /\ holder = "none"
    /\ poisoned = FALSE
    /\ wPc = [w \in Writers |-> "absent"]
    /\ rdPc = [r \in Readers |-> "absent"]
    /\ rdRes = [r \in Readers |-> NoRecord]
    /\ cycles = 0
    /\ installed = {}
    /\ logs = [t \in Writers \cup Readers |-> << >>]
    /\ mainPc = "setup_wifi"
    /\ routes = {}
    /\ created = << >>

NextAp ==
    \/ take_peripherals
    \/ take_sys_loop
    \/ take_nvs
    \/ wifi_new
    \/ wifi_wrap
    \/ build_config
    \/ set_configuration
    \/ wifi_start
    \/ esp_wifi_set_ps
    \/ esp_wifi_set_max_tx_power
    \/ wait_netif_up
    \/ get_ip_info

SpecAp == InitAp /\ [][NextAp]_vars

\* ---- startup: main() of main.rs -------------------------------------------
\* (a main that drops the result of setup_wifi: let _wifi = setup_wifi();)
main_setup_wifi_ignored ==
    /\ mainPc = "setup_wifi"
    /\ apPc = "done"
    /\ mainPc' = "store"
    /\ UNCHANGED <<build, storeVars, apVars, routes, created>>

\* main.rs:70  let _wifi = setup_wifi()?;  An error of the bring-up is the
\* error main returns.
main_setup_wifi_returns ==
    /\ mainPc = "setup_wifi"
    /\ apPc = "done"
    /\ mainPc' = IF apResult = "Ok" THEN "store" ELSE "exit_err"
    /\ UNCHANGED <<build, storeVars, apVars, routes, created>>

\* main.rs:74-78  let sensor_data = Arc::new(Mutex::new(SensorData {..}));
main_create_store ==
    /\ mainPc = "store"
    /\ data' = new_shared(build, now_secs)
    /\ sentinel' = data'
    /\ created' = Append(created, now_secs)
    /\ mainPc' = "runtime"
    /\ UNCHANGED <<build, apVars, logs, clock, holder, poisoned, wPc, rdPc, rdRes,
                   cycles, installed, routes>>

\* main.rs:81-84  tokio::runtime::Builder .. .build().expect(..): a failure
\* panics main.
main_build_runtime ==
    /\ mainPc = "runtime"
    /\ \E ok \in BOOLEAN : mainPc' = IF ok THEN "server" ELSE "panicked"
    /\ UNCHANGED <<build, storeVars, apVars, routes, created>>

\* main.rs:92  let mut server = EspHttpServer::new(&server_config)?;
main_server_new ==
    /\ mainPc = "server"
    /\ \E ok \in BOOLEAN : mainPc' = IF ok THEN "route_index" ELSE "exit_err"
    /\ UNCHANGED <<build, storeVars, apVars, routes, created>>

\* main.rs:98-169  server.fn_handler("/", Get, ..)?;
main_register_index ==
    /\ mainPc = "route_index"
    /\ \E ok \in BOOLEAN :
          IF ok
          THEN mainPc' = "route_api" /\ routes' = routes \cup {"/"}
          ELSE mainPc' = "exit_err" /\ routes' = routes
    /\ UNCHANGED <<build, storeVars, apVars, created>>

\* main.rs:172-184  server.fn_handler("/api/sensor", Get, move |req| ..)?;
\* From here on the server's task runs the handler for every request.
main_register_api ==
    /\ mainPc = "route_api"
    /\ \E ok \in BOOLEAN :
          IF ok
          THEN /\ mainPc' = "block_on"
               /\ routes' = routes \cup {"/api/sensor"}
               /\ rdPc' = [r \in Readers |-> "idle"]
          ELSE /\ mainPc' = "exit_err"
               /\ UNCHANGED <<routes, rdPc>>
    /\ UNCHANGED <<build, apVars, logs, clock, data, holder, poisoned, wPc, rdRes,
                   cycles, sentinel, installed, created>>

\* main.rs:187-191  runtime.block_on(async { .. loop { .. } }): the updater
\* loop starts on the main thread.
main_block_on ==
    /\ mainPc = "block_on"
    /\ mainPc' = "loop"
    /\ wPc' = [wPc EXCEPT !["upd"] = "lock"]
    /\ UNCHANGED <<build, apVars, logs, clock, data, holder, poisoned, rdPc, rdRes,
                   cycles, sentinel, installed, routes, created>>

InitBoot ==
    /\ build = "main"
    /\ InitAp

NextBoot ==
    \/ Tick
    \/ take_peripherals
    \/ take_sys_loop
    \/ take_nvs
    \/ wifi_new
    \/ wifi_wrap
    \/ build_config
    \/ set_configuration
    \/ wifi_start
    \/ wait_netif_up
    \/ get_ip_info
    \/ main_setup_wifi_returns
    \/ main_create_store
    \/ main_build_runtime
    \/ main_server_new
    \/ main_register_index
    \/ main_register_api
    \/ main_block_on
    \/ main_loop_lock
    \/ \E w \in Writers : simulate_update_temperature(w)
    \/ \E w \in Writers : simulate_update_humidity(w)
    \/ \E w \in Writers : simulate_update_timestamp(w)
    \/ updater_log_info
    \/ \E w \in Writers : guard_drop(w)
    \/ updater_sleep
    \/ \E w \in Writers : holder_panics(w)
    \/ \E r \in Readers : main_handler_lock(r)
    \/ \E t \in Writers \cup Readers : unwrap_panics(t)
    \/ \E r \in Readers : snapshot_clone(r)
    \/ \E r \in Readers : handler_respond(r)

SpecBoot == InitBoot /\ [][NextBoot]_vars

\* ========================================================== claims =====
AllThreads == Writers \cup Readers

\* A thread is inside the critical section between taking the mutex and
\* dropping the guard: by its position in the code, not by the mutex's word.
InCriticalSection(t) ==
    IF t \in Writers
    THEN wPc[t] \in {"wT", "wH", "wTs", "log", "drop", "warn", "unwrap"}
    ELSE rdPc[t] \in {"cs", "err", "unwrap"}

Returned(r) == rdPc[r] = "ret"

IsFallback(rec) ==
    /\ rec.temperature = 250
    /\ rec.humidity = 600
    /\ rec.timestamp \in 0..clock

\* C1 (as stated): every record a read returns equals, in all three fields,
\* the initial sentinel or a record that a completed update installed.
C1_ReadIsSentinelOrInstalled ==
    \A r \in Readers :
        Returned(r) => rdRes[r][1] \in installed \cup {sentinel}

\* C1 (amended): every record a read returns equals the initial sentinel, a
\* record that a completed update installed, or - only when the lock is
\* poisoned, and only in the build that has snapshot() - the fallback record
\* (25.0, 60.0, time of the read); no read returns fields of two updates.
C1_ReadIsSentinelInstalledOrFallback ==
    \A r \in Readers :
        Returned(r) =>
            \/ rdRes[r][1] \in installed \cup {sentinel}
            \/ /\ poisoned /\ build = "lib"
               /\ IsFallback(rdRes[r][1])
               /\ rdRes[r][1].timestamp >= sentinel.timestamp

\* One handler holds a record installed by an update while the other holds
\* the fallback of a read that found the lock poisoned.
C1_Witness ==
    \E r, q \in Readers :
        /\ Returned(r) /\ Returned(q)
        /\ rdRes[r][1] \in installed /\ rdRes[r][1] # sentinel
        /\ rdRes[q][1] \notin installed \cup {sentinel}
        /\ data \notin installed \cup {sentinel}

\* C2: at most one thread is inside the store's critical section: never two
\* writers, never a reader copying while a writer is part-way through.
C2_MutualExclusion ==
    Cardinality({t \in AllThreads : InCriticalSection(t)}) <= 1

\* The updater has written the temperature and not yet the humidity, while
\* both handlers and the other writer are outside.
C2_Witness ==
    /\ wPc["upd"] = "wH"
    /\ data.temperature # sentinel.temperature
    /\ data.humidity = sentinel.humidity
    /\ wPc["once"] = "idle"
    /\ \E r \in Readers : Returned(r)

\* C3: the updater does not hold the store lock when it begins its sleep nor
\* while it sleeps, after an update and after a skipped (poisoned) cycle
\* alike; a reader that asks for the lock while the updater sleeps is kept
\* waiting only by another reader or writer, never by the updater.
C3_NoLockAcrossSleep ==
    wPc["upd"] = "sleep" =>
        /\ holder # "upd"
        /\ \A r \in Readers :
              (rdPc[r] = "idle" /\ ~(\E t \in AllThreads : InCriticalSection(t)))
                  => ENABLED (snapshot_lock(r) \/ main_handler_lock(r))

\* The updater sleeps after a skipped cycle (the lock was poisoned by the
\* other writer before any update completed) and a reader holds the lock.
C3_Witness ==
    /\ wPc["upd"] = "sleep"
    /\ poisoned
    /\ installed = {}
    /\ wPc["once"] = "dead"
    /\ \E r \in Readers : holder = r

\* C4 (as stated): with the lock poisoned, every read made for a request
\* still returns a record - the fallback - and never panics.
C4_ReadNeverFails ==
    \A r \in Readers :
        /\ rdPc[r] \notin {"unwrap", "panicked"}
        /\ (Returned(r) /\ poisoned) =>
              rdRes[r][1] \in installed \cup {sentinel} \/ IsFallback(rdRes[r][1])

\* C5: an updater that finds the lock poisoned leaves the record unchanged
\* for that cycle, reports, does not crash, goes on to sleep and to the next
\* cycle; the updater ends only by failing inside its own update, never
\* after a successful or a skipped cycle.
C5_SkipsCycleAndContinues ==
    [][ /\ (wPc["upd"] = "lock" /\ wPc'["upd"] # "lock" /\ poisoned)
              => (wPc'["upd"] = "warn" /\ data' = data)
        /\ wPc["upd"] = "warn"
              => (data' = data /\ wPc'["upd"] \in {"warn", "sleep"})
        /\ wPc["upd"] = "sleep" => wPc'["upd"] \in {"sleep", "lock"}
        /\ (wPc'["upd"] \in {"dead", "unwrap"} /\ wPc["upd"] # wPc'["upd"])
              => (wPc["upd"] \in {"wT", "wH", "log"} /\ ~poisoned)
      ]_vars

\* The updater is back at the head of its loop after a cycle it skipped:
\* the other writer poisoned the lock in the first cycle, the second cycle
\* was the updater's, and no update ever completed.
C5_Witness ==
    /\ wPc["upd"] = "lock"
    /\ wPc["once"] = "dead"
    /\ poisoned
    /\ cycles = 2
    /\ installed = {}
    /\ data = sentinel

\* ---- access-point setup ---------------------------------------------------
\* build_ap_config has run: every acquisition before it succeeded.
Validated == build = "lib" /\ taken = ApServices /\ apPc # "build"
Accepted == cfg # None

IdentityOk == Len(ssid) <= 32
CredentialPresent == password # None /\ Len(password[1]) > 0
CredentialOk == ~CredentialPresent \/ Len(password[1]) \in 8..63
ChannelOk == channel \in 1..13

ValidationErrors == {ErrSsidTooLong, ErrPasswordLen, ErrPasswordTooLong}

IsBringupCall(c) == c.call \in {"set_configuration", "start", "wait_netif_up"}
BringupCalls == SelectSeq(radio, IsBringupCall)
BringupOrder == <<"set_configuration", "start", "wait_netif_up">>
\* main.rs:52  get_ip_info()? failed, after the link came up
IpInfoFailed ==
    /\ radio # << >>
    /\ radio[Len(radio)].call = "get_ip_info"
    /\ ~radio[Len(radio)].ok

\* C6 (as stated): validation accepts a channel if and only if it is in
\* 1..13, for every identity and credential that pass their own rules.
C6_ChannelAcceptedIffInRange ==
    (Validated /\ IdentityOk /\ CredentialOk) => (Accepted <=> ChannelOk)

\* C7: the identity is checked first, the credential second: an identity of
\* more than 32 bytes gives the identity error whatever the credential; else
\* a present, non-empty credential outside [8, 63] gives the credential
\* error, one inside gives WPA2-Personal carrying that credential; an absent
\* or empty credential gives an open network with an empty password.
C7_IdentityThenCredential ==
    Validated =>
        IF ~IdentityOk
        THEN ~Accepted /\ apResult = ErrSsidTooLong
        ELSE IF CredentialPresent
        THEN IF Len(password[1]) \in 8..63
             THEN /\ Accepted
                  /\ cfg[1].ssid = ssid
                  /\ cfg[1].auth_method = "WPA2Personal"
                  /\ cfg[1].password = password[1]
             ELSE ~Accepted /\ apResult = ErrPasswordLen
        ELSE /\ Accepted
             /\ cfg[1].ssid = ssid
             /\ cfg[1].auth_method = "None"
             /\ cfg[1].password = << >>

\* A 33-byte identity with a 7-byte credential: the identity error wins.
C7_Witness ==
    /\ Validated
    /\ Len(ssid) = 33
    /\ password # None /\ Len(password[1]) = 7
    /\ apResult = ErrSsidTooLong

\* C8 (as stated): configure, start and wait-for-link are invoked only with
\* parameters that passed validation; when the identity, the credential or
\* the channel breaks a rule, setup returns an error and calls none of them.
C8_RadioOnlyWithValidParameters ==
    ~(IdentityOk /\ CredentialOk /\ ChannelOk) =>
        /\ BringupCalls = << >>
        /\ apResult # "Ok"

\* C9 (as stated): a validation error is raised before any hardware
\* interaction: setup fails without having taken the peripherals, the event
\* loop or the NVS partition and without having created the Wi-Fi driver.
C9_ValidationBeforeHardware ==
    apResult \in ValidationErrors => taken = {}

\* C10: bring-up goes strictly forward: configure, start, wait-for-link, each
\* at most once and in that order, none after a failed one; a successful
\* bring-up has made all three; after a failed configure there is no start
\* and no wait-for-link, after a failed start no wait-for-link.
C10_BringupStrictlyForward ==
    /\ Len(BringupCalls) <= 3
    /\ \A i \in 1..Len(BringupCalls) :
          /\ BringupCalls[i].call = BringupOrder[i]
          /\ i < Len(BringupCalls) => BringupCalls[i].ok
    /\ apResult = "Ok" =>
          (Len(BringupCalls) = 3 /\ \A i \in 1..3 : BringupCalls[i].ok)
    /\ \A i \in 1..Len(BringupCalls) :
          ~BringupCalls[i].ok =>
              /\ i = Len(BringupCalls)
              /\ radio[Len(radio)] = BringupCalls[i]
              /\ apPc = "done"
              /\ apResult \in EspErrors
    /\ (apPc = "done" /\ apResult # "Ok" /\ ~IpInfoFailed)
          => \A i \in 1..Len(BringupCalls) :
                BringupCalls[i].call = "wait_netif_up" => ~BringupCalls[i].ok

\* A bring-up that returned Ok after configure, start and wait-for-link.
C10_Witness ==
    /\ apPc = "done"
    /\ apResult = "Ok"
    /\ Len(BringupCalls) = 3

\* ---- startup ----------------------------------------------------------------
BringupSucceeded == apPc = "done" /\ apResult = "Ok"
BringupFailed == apPc = "done" /\ apResult # "Ok"
ServiceStarted ==
    \/ created # << >>
    \/ routes # {}
    \/ \E r \in Readers : rdPc[r] # "absent"
    \/ wPc["upd"] # "absent"
    \/ cycles > 0

\* C11: the bring-up has run to completion before the store is created,
\* before any handler is registered and before the updater's first cycle;
\* when it fails at any stage, startup ends with the error and neither the
\* request service nor the updater is ever started.
C11_BringupBeforeService ==
    /\ ServiceStarted => BringupSucceeded
    /\ BringupFailed =>
          (~ServiceStarted /\ mainPc \in {"setup_wifi", "exit_err"})
    /\ mainPc \notin {"setup_wifi", "exit_err"} => BringupSucceeded

\* The service runs: an update is installed and a handler holds a record.
C11_Witness ==
    /\ mainPc = "loop"
    /\ BringupSucceeded
    /\ installed # {}
    /\ \E r \in Readers : Returned(r)

\* C12 (as stated): the store is created exactly once at startup, and the
\* record a reader sees before the first update is the sentinel: 25.0, 60.0
\* and the wall-clock time at the moment the store was created.
C12_SentinelStampedAtCreation ==
    /\ Len(created) <= 1
    /\ mainPc = "loop" => Len(created) = 1
    /\ \A r \in Readers :
          (Returned(r) /\ installed = {} /\ ~poisoned) =>
              rdRes[r][1] = SensorData(250, 600, created[1])

\* C13: every record an updater cycle installs has its temperature in
\* [20.0, 30.0] and its humidity in [50.0, 70.0], whatever the random source
\* gives; so has every record a reader obtains (sentinel, installed record or
\* poisoned-lock fallback).
InRange(rec) ==
    /\ rec.temperature \in 200..300
    /\ rec.humidity \in 500..700

C13_RecordsInRange ==
    /\ \A rec \in installed : InRange(rec)
    /\ \A r \in Readers : Returned(r) => InRange(rdRes[r][1])
    /\ \A w \in Writers : wPc[w] \in {"log", "drop"} => InRange(data)

\* A handler holds an installed record made from the largest random value.
C13_Witness ==
    \E r \in Readers :
        /\ Returned(r)
        /\ rdRes[r][1] \in installed
        /\ rdRes[r][1].temperature = SimTemperature(RandDen - 1)
        /\ rdRes[r][1].humidity = SimHumidity(RandDen - 1)
        /\ rdRes[r][1].temperature > 250 /\ rdRes[r][1].humidity > 600

\* C14: every read of the record (snapshot under the /api/sensor handler of
\* http.rs) eventually returns: the reader can take the lock whenever nobody
\* is inside the critical section, every critical section ends, and under a
\* fair lock no amount of competing reads and updater cycles keeps a reader
\* waiting forever.
C14_ReadEventuallyReturns ==
    /\ [](\A r \in Readers :
             (build = "lib" /\ rdPc[r] = "idle"
                 /\ \A t \in AllThreads : ~InCriticalSection(t))
                 => ENABLED snapshot_lock(r))
    /\ \A t \in AllThreads : InCriticalSection(t) ~> ~InCriticalSection(t)
    /\ \A r \in Readers : (build = "lib" /\ rdPc[r] = "idle") ~> Returned(r)

\* A read has returned while the other handler is inside the critical
\* section and the updater, one cycle done, waits for the lock.
C14_Witness ==
    /\ build = "lib"
    /\ Returned("r1")
    /\ InCriticalSection("r2")
    /\ wPc["upd"] = "lock"
    /\ cycles >= 1

\* The stage whose call failed and ended the bring-up, "none" otherwise.
FailedStage ==
    IF /\ apPc = "done"
       /\ radio # << >>
       /\ ~radio[Len(radio)].ok
       /\ IsBringupCall(radio[Len(radio)])
    THEN radio[Len(radio)].call
    ELSE "none"

\* C15 (as stated): the error of a failed bring-up tells the stage that
\* failed: the error returned after a rejected configuration, a failed start
\* or a timed-out wait for link is one that no other of the three stages
\* returns, and it is never a validation error.
C15_FailureReasonIdentifiesStage ==
    FailedStage # "none" =>
        /\ apResult \notin ValidationErrors
        /\ \A i \in 1..Len(BringupOrder) :
              BringupOrder[i] # FailedStage =>
                  apResult \notin EspErrorsOf(BringupOrder[i])

\* A degradation event is a log line of level warn or error; the info line
\* of a completed update is none.
IsDegradation(level) == level \in {"warn", "error"}
DegradationEvents(lines) == SelectSeq(lines, IsDegradation)

\* C16: each poisoned-lock occurrence is reported exactly once (sensor.rs):
\* a read that finds the lock poisoned returns the fallback record having
\* emitted exactly one degradation event, an update that finds it poisoned
\* ends having emitted exactly one skipped-cycle event and leaves the record
\* alone, and a read or update that got the lock normally ends having
\* emitted none; outside these steps no event is added.
C16_PoisonReportedOnce ==
    [][build = "lib" =>
        /\ \A r \in Readers :
              /\ (rdPc[r] = "idle" /\ rdPc'[r] # "idle") =>
                    /\ rdPc'[r] = (IF poisoned THEN "err" ELSE "cs")
                    /\ logs'[r] = << >>
              /\ (rdPc[r] = "err" /\ rdPc'[r] # "err") =>
                    /\ Returned(r)'
                    /\ DegradationEvents(logs'[r]) = <<"error">>
                    /\ IsFallback(rdRes'[r][1])
              /\ (rdPc[r] = "cs" /\ rdPc'[r] # "cs") =>
                    /\ Returned(r)'
                    /\ DegradationEvents(logs'[r]) = << >>
              /\ (rdPc'[r] = rdPc[r] \/ rdPc[r] = "ret") => logs'[r] = logs[r]
        /\ \A w \in Writers :
              /\ (wPc[w] \in {"lock", "idle"} /\ wPc'[w] # wPc[w]) =>
                    /\ wPc'[w] = (IF poisoned THEN "warn" ELSE "wT")
                    /\ logs'[w] = << >>
              /\ (wPc[w] = "warn" /\ wPc'[w] # "warn") =>
                    /\ wPc'[w] \in {"sleep", "idle"}
                    /\ DegradationEvents(logs'[w]) = <<"warn">>
                    /\ data' = data
              /\ (wPc[w] = "drop" /\ wPc'[w] # "drop") =>
                    /\ wPc'[w] \in {"sleep", "idle"}
                    /\ DegradationEvents(logs'[w]) = << >>
              /\ (wPc'[w] = wPc[w] \/ wPc[w] = "sleep") =>
                    DegradationEvents(logs'[w]) = DegradationEvents(logs[w])
    ]_vars

\* Both occurrences, reported once each: a handler has returned the fallback
\* with its one error line, the updater has skipped a cycle with its one
\* warning.
C16_Witness ==
    /\ build = "lib"
    /\ poisoned
    /\ Returned("r1") /\ logs["r1"] = <<"error">>
    /\ wPc["upd"] = "sleep" /\ logs["upd"] = <<"warn">>

\* The stability tuning of wifi.rs:55-60.
TuningCalls == <<"esp_wifi_set_ps", "esp_wifi_set_max_tx_power">>
IsTuningCall(c) == c.call \in {TuningCalls[1], TuningCalls[2]}
StartSucceededAt(i) ==
    /\ i \in 1..Len(radio)
    /\ radio[i].call = "start"
    /\ radio[i].ok

\* C18 (as stated): both tuning calls are made on every bring-up whose
\* start succeeded, right after start and before wait-for-link, and never
\* without a successful start; a tuning call that fails does not end the
\* bring-up, which goes on to wait-for-link.
C18_TuningAfterStart ==
    /\ \A i \in 1..Len(radio) :
          (StartSucceededAt(i) /\ apPc \in {"wait", "ip_info", "done"}) =>
              /\ Len(radio) >= i + 2
              /\ radio[i + 1].call = TuningCalls[1]
              /\ radio[i + 2].call = TuningCalls[2]
    /\ \A j \in 1..Len(radio) :
          IsTuningCall(radio[j]) =>
              /\ \E i \in 1..(j - 1) : StartSucceededAt(i)
              /\ \A k \in 1..(j - 1) : radio[k].call # "wait_netif_up"
              /\ j = Len(radio) => apPc \in {"set_max_tx_power", "wait"}
              /\ apPc \in {"ip_info", "done"} =>
                    \E k \in (j + 1)..Len(radio) : radio[k].call = "wait_netif_up"
    /\ \A k \in 1..Len(radio) :
          radio[k].call = "wait_netif_up" =>
              \A n \in 1..2 : \E j \in 1..(k - 1) : radio[j].call = TuningCalls[n]

\* The thread's next statement is a log macro: log::info! (sensor.rs:58,
\* main.rs:202), log::warn! (sensor.rs:44, :65), log::error! (sensor.rs:29).
AtLogStatement(t) ==
    IF t \in Writers
    THEN wPc[t] \in {"log", "warn"}
    ELSE rdPc[t] = "err"

\* C19 (as stated): a thread that holds the store lock only copies or
\* installs the record: no thread writes to the log while it holds the lock,
\* on the normal path or on the poisoned one.
C19_NoLoggingInCriticalSection ==
    \A t \in AllThreads : AtLogStatement(t) => holder # t

\* C20: poisoning is permanent (sensor.rs).  Once the lock is poisoned it
\* stays poisoned, no step changes the stored record any more, no handler
\* gets into the normal read path again, and every read that returns from
\* then on returns the fallback (25.0, 60.0) stamped with the time of the
\* read: not the record installed last.
C20_PoisoningPermanent ==
    [][poisoned =>
        /\ poisoned'
        /\ data' = data
        /\ installed' = installed
        /\ build = "lib" =>
              \A r \in Readers :
                 /\ rdPc'[r] # "cs"
                 /\ (~Returned(r) /\ Returned(r)') =>
                       rdRes'[r] = <<SensorData(250, 600, clock')>>
    ]_vars

\* An update was installed, then a holder failed; the clock has moved on
\* and a handler holds the fallback of now while the store still has the
\* older record.
C20_Witness ==
    /\ build = "lib"
    /\ poisoned
    /\ installed # {}
    /\ \E w \in Writers : wPc[w] = "dead"
    /\ \E r \in Readers :
          /\ Returned(r)
          /\ rdRes[r] = <<SensorData(250, 600, clock)>>
          /\ rdRes[r][1] # data
          /\ clock > data.timestamp

=============================================================================
